---- MODULE Spec2Model ----
(***************************************************************************)
(* Model of the journald sink (src/sinks/journald/mod.rs): the field name  *)
(* sanitizer write_field_name, the value encoder write_field_value and the *)
(* send loop JournalSink::run_inner.                                       *)
(*                                                                         *)
(* A byte is a number in 0..255 and a byte string is a sequence of bytes.  *)
(***************************************************************************)
EXTENDS Integers, Sequences, FiniteSets, TLC

VARIABLES
    pc,         \* position of the sink: created, build_failed, pull, encode,
                \* send, await, closed, panicked
    buffer,     \* run_inner's `buffer`
    fields,     \* the fields of the current event the for loop has not visited
    consumed,   \* the events input.next() has yielded so far, in order
    inflight,   \* the datagrams handed to send_to whose future is pending
    sent,       \* the datagrams the socket delivered: [bytes, rec], in order;
                \* rec is the number of the event being processed at the send
    error,      \* why the sink panicked ("" while it has not)
    lastField,  \* history of the last loop iteration: the field and the
                \* buffer before and after it
    nameIn,     \* NameSpec: the `name` argument of write_field_name
    outBefore,  \* NameSpec: `output` before the call
    outAfter,   \* NameSpec: `output` after the call
    namePc      \* NameSpec: "in" before the call, "done" after it

vars == <<pc, buffer, fields, consumed, inflight, sent, error, lastField,
          nameIn, outBefore, outAfter, namePc>>

transportVars == <<pc, buffer, fields, consumed, inflight, sent, error, lastField>>
nameVars == <<nameIn, outBefore, outAfter, namePc>>

(***************************************************************************)
(* Bounds of the model.                                                    *)
(***************************************************************************)
\* the number of events the stream yields at most
MaxRecords == 2
\* the longest name enumerated byte by byte
MaxShortName == 2
\* how far past the 64-byte budget the padded names reach
MaxOver == 2

(***************************************************************************)
(* Bytes.                                                                  *)
(***************************************************************************)
\* b'\n'
NL == 10
\* b'='
EQ == 61
\* b'_'
UNDERSCORE == 95
\* the budget of a field name
MaxNameLen == 64
\* the bytes of b"ESC_", counted into `wrote`
EscLen == 4

\* b"EMPTY"
EMPTY == <<69, 77, 80, 84, 89>>
\* b"ESC_"
ESC == <<69, 83, 67, 95>>
\* "<NULL>"
NULLTOKEN == <<60, 78, 85, 76, 76, 62>>
\* "true"
TRUETOKEN == <<116, 114, 117, 101>>
\* "false"
FALSETOKEN == <<102, 97, 108, 115, 101>>

Min(a, b) == IF a < b THEN a ELSE b

\* u8::is_ascii_alphabetic
IsAsciiAlphabetic(b) == (b >= 65 /\ b <= 90) \/ (b >= 97 /\ b <= 122)

\* u8::is_ascii_alphanumeric
IsAsciiAlphanumeric(b) == IsAsciiAlphabetic(b) \/ (b >= 48 /\ b <= 57)

\* u8::to_ascii_uppercase
ToAsciiUppercase(b) == IF b >= 97 /\ b <= 122 THEN b - 32 ELSE b

\* slice::contains
Contains(s, b) == \E i \in 1..Len(s) : s[i] = b

(***************************************************************************)
(* write_field_name.                                                       *)
(***************************************************************************)
\* the byte one iteration pushes: an alphanumeric uppercased, '_' for the rest
NameByte(byte) ==
    IF IsAsciiAlphanumeric(byte) THEN ToAsciiUppercase(byte) ELSE UNDERSCORE

\* the iterations of `for byte in name.iter().take(64)` that run when the
\* counter `wrote` starts at wrote0: take(64) yields the first 64 bytes, every
\* iteration adds one to the counter, and the loop breaks after the iteration
\* that brings it to 64, so the i-th runs when the i-1 before it left it below
IterationsRun(name, wrote0) ==
    {i \in 1..Len(name) :
        /\ i <= MaxNameLen
        /\ (i = 1 \/ wrote0 + (i - 1) < MaxNameLen)}

\* the bytes the loop pushes, one per iteration that runs, in order
NameLoop(name, wrote0) ==
    [i \in 1..Cardinality(IterationsRun(name, wrote0)) |-> NameByte(name[i])]

\* a slip: the prefix is written but not counted into `wrote`
write_field_name_uncounted(name, output) ==
    IF name = <<>>
    THEN output \o EMPTY
    ELSE IF ~IsAsciiAlphabetic(name[1])
         THEN output \o ESC \o NameLoop(name, 0)
         ELSE output \o NameLoop(name, 0)

\* a slip: the rule of the doc comment, which escapes only a leading digit or
\* underscore
write_field_name_digit_only(name, output) ==
    IF name = <<>>
    THEN output \o EMPTY
    ELSE IF (name[1] >= 48 /\ name[1] <= 57) \/ name[1] = UNDERSCORE
         THEN output \o ESC \o NameLoop(name, EscLen)
         ELSE output \o NameLoop(name, 0)

write_field_name(name, output) ==
    IF name = <<>>
    THEN output \o EMPTY
    ELSE IF ~IsAsciiAlphabetic(name[1])
         THEN output \o ESC \o NameLoop(name, EscLen)
         ELSE output \o NameLoop(name, 0)

(***************************************************************************)
(* Values and their byte representation.                                   *)
(***************************************************************************)
\* A Value: `kind` is the variant; `bytes` the payload of Bytes and the
\* pattern of Regex; `int` the payload of Integer, a Float counted in halves
\* (3 is 1.5), a Timestamp in whole seconds of 1970-01-01 UTC; `bool` the
\* payload of Boolean.
MkValue(kind, bytes, int, bool) ==
    [kind |-> kind, bytes |-> bytes, int |-> int, bool |-> bool]

BytesValue(bytes) == MkValue("Bytes", bytes, 0, FALSE)
RegexValue(bytes) == MkValue("Regex", bytes, 0, FALSE)
IntegerValue(i) == MkValue("Integer", <<>>, i, FALSE)
FloatValue(halves) == MkValue("Float", <<>>, halves, FALSE)
BooleanValue(b) == MkValue("Boolean", <<>>, 0, b)
TimestampValue(secs) == MkValue("Timestamp", <<>>, secs, FALSE)
NullValue == MkValue("Null", <<>>, 0, FALSE)
ObjectValue == MkValue("Object", <<>>, 0, FALSE)
ArrayValue == MkValue("Array", <<>>, 0, FALSE)

IsCollection(value) == value.kind \in {"Object", "Array"}

\* the decimal digits of n >= 0
RECURSIVE NatToString(_)
NatToString(n) ==
    IF n < 10
    THEN <<48 + n>>
    ELSE Append(NatToString(n \div 10), 48 + (n % 10))

\* i64::to_string
IntToString(i) == IF i < 0 THEN <<45>> \o NatToString(-i) ELSE NatToString(i)

\* f64::to_string of halves/2: "1.5", "2", "-0.5"
FloatToString(halves) ==
    LET mag == IF halves < 0 THEN -halves ELSE halves
        sign == IF halves < 0 THEN <<45>> ELSE <<>>
    IN  IF mag % 2 = 0
        THEN sign \o NatToString(mag \div 2)
        ELSE sign \o NatToString(mag \div 2) \o <<46, 53>>

\* bool::to_string
BoolToString(b) == IF b THEN TRUETOKEN ELSE FALSETOKEN

\* two decimal digits
Pad2(n) == <<48 + (n \div 10), 48 + (n % 10)>>

\* DateTime<Utc>::to_string of a whole second of 1970-01-01:
\* "1970-01-01 HH:MM:SS UTC"
TimestampToString(secs) ==
    <<49, 57, 55, 48, 45, 48, 49, 45, 48, 49, 32>>
        \o Pad2(secs \div 3600) \o <<58>>
        \o Pad2((secs \div 60) % 60) \o <<58>>
        \o Pad2(secs % 60) \o <<32, 85, 84, 67>>

\* the argument each match arm of write_field_value hands to write_bytes
ValueBytes(value) ==
    CASE value.kind = "Bytes" -> value.bytes
      [] value.kind = "Regex" -> value.bytes
      [] value.kind = "Integer" -> IntToString(value.int)
      [] value.kind = "Float" -> FloatToString(value.int)
      [] value.kind = "Boolean" -> BoolToString(value.bool)
      [] value.kind = "Timestamp" -> TimestampToString(value.int)
      [] value.kind = "Null" -> NULLTOKEN
      [] OTHER -> <<>>

(***************************************************************************)
(* write_field_value.                                                      *)
(***************************************************************************)
\* BufMut::put_u64_le: the 8 bytes of n, least significant first
RECURSIVE LittleEndian(_, _)
LittleEndian(n, k) ==
    IF k = 0 THEN <<>> ELSE <<n % 256>> \o LittleEndian(n \div 256, k - 1)

U64LE(n) == LittleEndian(n, 8)

\* the inner fn write_bytes: the framing is chosen by looking at `output`
write_bytes(bytes, output) ==
    LET framed == IF ~Contains(output, NL)
                  THEN Append(output, EQ)
                  ELSE Append(output, NL) \o U64LE(Len(bytes))
    IN  Append(framed \o bytes, NL)

\* a slip: a collection is written as an empty value instead of panicking
write_field_value_lenient(value, output) ==
    [panic |-> FALSE, out |-> write_bytes(ValueBytes(value), output)]

\* panic is TRUE when the match reaches unreachable!()
write_field_value(value, output) ==
    IF IsCollection(value)
    THEN [panic |-> TRUE, out |-> output]
    ELSE [panic |-> FALSE, out |-> write_bytes(ValueBytes(value), output)]

(***************************************************************************)
(* The events of the stream.  An event is the sequence of (name, value)    *)
(* pairs convert_to_fields yields for it.                                  *)
(***************************************************************************)
Field(name, value) == [name |-> name, value |-> value]

\* {"Message": "hello", "Count": 3}
RecMessageCount ==
    <<Field(<<77, 101, 115, 115, 97, 103, 101>>, BytesValue(<<104, 101, 108, 108, 111>>)),
      Field(<<67, 111, 117, 110, 116>>, IntegerValue(3))>>

\* {"msg": "line1\nline2"}
RecMultiline ==
    <<Field(<<109, 115, 103>>,
            BytesValue(<<108, 105, 110, 101, 49, 10, 108, 105, 110, 101, 50>>))>>

\* {"1bad": "x"}
RecDigitName == <<Field(<<49, 98, 97, 100>>, BytesValue(<<120>>))>>

\* {"a": "x\ny", "b": "z"}
RecMultilineFirst ==
    <<Field(<<97>>, BytesValue(<<120, 10, 121>>)),
      Field(<<98>>, BytesValue(<<122>>))>>

\* {"x": "a", "y": "u\nv", "": ""}
RecMultilineLater ==
    <<Field(<<120>>, BytesValue(<<97>>)),
      Field(<<121>>, BytesValue(<<117, 10, 118>>)),
      Field(<<>>, BytesValue(<<>>))>>

\* {"k": "p", "tags": []}
RecArrayLater ==
    <<Field(<<107>>, BytesValue(<<112>>)),
      Field(<<116, 97, 103, 115>>, ArrayValue)>>

\* {"obj": {}}
RecObjectFirst == <<Field(<<111, 98, 106>>, ObjectValue)>>

\* {"ok": true, "n": null}
RecBoolNull ==
    <<Field(<<111, 107>>, BooleanValue(TRUE)),
      Field(<<110>>, NullValue)>>

\* {"f": 1.5, "t": 1970-01-01T01:01:01Z, "re": r'a.b'}
RecFloatTime ==
    <<Field(<<102>>, FloatValue(3)),
      Field(<<116>>, TimestampValue(3661)),
      Field(<<114, 101>>, RegexValue(<<97, 46, 98>>))>>

\* {"n": -120}
RecNegative == <<Field(<<110>>, IntegerValue(-120))>>

\* an event with no field
RecEmpty == <<>>

Records ==
    {RecMessageCount, RecMultiline, RecDigitName, RecMultilineFirst,
     RecMultilineLater, RecArrayLater, RecObjectFirst, RecBoolNull,
     RecFloatTime, RecNegative, RecEmpty}

HasCollection(rec) == \E i \in 1..Len(rec) : IsCollection(rec[i].value)

(***************************************************************************)
(* JournaldSinkConfig::build and JournalSink::run_inner.                   *)
(***************************************************************************)
NoField ==
    [wrote |-> FALSE, pos |-> 0, name |-> <<>>, value |-> NullValue,
     before |-> <<>>, after |-> <<>>]

TransportInit ==
    /\ pc = "created"
    /\ buffer = <<>>
    /\ fields = <<>>
    /\ consumed = <<>>
    /\ inflight = <<>>
    /\ sent = <<>>
    /\ error = ""
    /\ lastField = NoField

NameIdle ==
    /\ nameIn = <<>>
    /\ outBefore = <<>>
    /\ outAfter = <<>>
    /\ namePc = "idle"

Init == TransportInit /\ NameIdle

\* a slip: the loop stops one field early
FieldLoopDoneEarly(fs) == Len(fs) <= 1

\* the for loop over `fields` ends when the iterator is exhausted
FieldLoopDone(fs) == fs = <<>>

\* a slip: the buffer is not cleared after the send
BufferKept(buf) == buf

\* buffer.clear()
BufferCleared(buf) == <<>>

\* build: UnixDatagram::unbound() succeeds, the sink starts with Vec::new()
Build ==
    /\ pc = "created"
    /\ pc' = "pull"
    /\ buffer' = <<>>
    /\ UNCHANGED <<fields, consumed, inflight, sent, error, lastField, nameVars>>

\* build: UnixDatagram::unbound()? returns the error, no sink exists
BuildFail ==
    /\ pc = "created"
    /\ pc' = "build_failed"
    /\ error' = "SocketCreate"
    /\ UNCHANGED <<buffer, fields, consumed, inflight, sent, lastField, nameVars>>

\* input.next() yields Some(event); into_log, convert_to_fields
NextEvent ==
    /\ pc = "pull"
    /\ Len(consumed) < MaxRecords
    /\ \E rec \in Records :
        /\ consumed' = Append(consumed, rec)
        /\ fields' = rec
        /\ pc' = IF FieldLoopDone(rec) THEN "send" ELSE "encode"
    /\ UNCHANGED <<buffer, inflight, sent, error, lastField, nameVars>>

\* input.next() yields None: the loop ends, run_inner returns Ok(())
StreamEnd ==
    /\ pc = "pull"
    /\ pc' = "closed"
    /\ UNCHANGED <<buffer, fields, consumed, inflight, sent, error, lastField, nameVars>>

\* one iteration of `for (k, v) in fields`
WriteField ==
    /\ pc = "encode"
    /\ LET f == Head(fields)
           named == write_field_name(f.name, buffer)
           r == write_field_value(f.value, named)
       IN  /\ lastField' =
                [wrote |-> TRUE, pos |-> Len(consumed[Len(consumed)]) - Len(fields) + 1,
                 name |-> f.name, value |-> f.value,
                 before |-> buffer, after |-> r.out]
           /\ buffer' = r.out
           /\ IF r.panic
              THEN /\ pc' = "panicked"
                   /\ error' = "InvalidInternalValue"
                   /\ fields' = fields
              ELSE /\ pc' = IF FieldLoopDone(Tail(fields)) THEN "send" ELSE "encode"
                   /\ error' = error
                   /\ fields' = Tail(fields)
    /\ UNCHANGED <<consumed, inflight, sent, nameVars>>

\* self.socket.send_to(&buffer, &self.target): the future is created and awaited
SendTo ==
    /\ pc = "send"
    /\ inflight' = Append(inflight, buffer)
    /\ pc' = "await"
    /\ UNCHANGED <<buffer, fields, consumed, sent, error, lastField, nameVars>>

\* the send resolves to Ok: the datagram is delivered whole; buffer.clear()
SendOk ==
    /\ pc = "await"
    /\ inflight # <<>>
    /\ sent' = Append(sent, [bytes |-> Head(inflight), rec |-> Len(consumed)])
    /\ inflight' = Tail(inflight)
    /\ buffer' = BufferCleared(buffer)
    /\ pc' = "pull"
    /\ UNCHANGED <<fields, consumed, error, lastField, nameVars>>

\* the send resolves to Err: nothing is delivered, expect() panics
SendErr ==
    /\ pc = "await"
    /\ inflight # <<>>
    /\ inflight' = Tail(inflight)
    /\ pc' = "panicked"
    /\ error' = "SendFailed"
    /\ UNCHANGED <<buffer, fields, consumed, sent, lastField, nameVars>>

Next ==
    \/ Build
    \/ BuildFail
    \/ NextEvent
    \/ StreamEnd
    \/ WriteField
    \/ SendTo
    \/ SendOk
    \/ SendErr

Spec == Init /\ [][Next]_vars

\* the datagram run_inner assembles for an event, starting from an empty buffer
RECURSIVE EncodeFields(_, _)
EncodeFields(fs, output) ==
    IF fs = <<>>
    THEN output
    ELSE EncodeFields(Tail(fs),
            write_field_value(Head(fs).value,
                              write_field_name(Head(fs).name, output)).out)

EncodeRecord(rec) == EncodeFields(rec, <<>>)

(***************************************************************************)
(* NameSpec: write_field_name applied to one name, on a buffer that may    *)
(* already hold an earlier field.                                          *)
(***************************************************************************)
\* the bytes names are built from: a Z 1 _ - 0xC3 '\n' =
NameBytes == {97, 90, 49, 95, 45, 195, 10, 61}

\* the bytes long names are padded with: b 9 0xA9
FillBytes == {98, 57, 169}

ShortNames == UNION {[1..n -> NameBytes] : n \in 0..MaxShortName}

\* one leading byte, then k times the same byte: lengths from below the
\* 60-byte budget of an escaped name to beyond the 64-byte budget
LongNames ==
    {<<h>> \o [i \in 1..k |-> f] :
        h \in NameBytes, f \in FillBytes,
        k \in (MaxNameLen - EscLen - 2)..(MaxNameLen + MaxOver)}

NameInputs == ShortNames \cup LongNames \cup {<<49, 98, 97, 100>>}

\* `output` before the call: empty, or holding the field M=x\n
Prefixes == {<<>>, <<77, 61, 120, 10>>}

NameInit ==
    /\ TransportInit
    /\ nameIn \in NameInputs
    /\ outBefore \in Prefixes
    /\ outAfter = outBefore
    /\ namePc = "in"

ApplyWriteFieldName ==
    /\ namePc = "in"
    /\ outAfter' = write_field_name(nameIn, outBefore)
    /\ namePc' = "done"
    /\ UNCHANGED <<nameIn, outBefore, transportVars>>

NameNext == ApplyWriteFieldName

NameSpec == NameInit /\ [][NameNext]_vars

\* the bytes the call appended
Written == SubSeq(outAfter, Len(outBefore) + 1, Len(outAfter))

(***************************************************************************)
(* The journal native protocol, read back: a datagram split into its       *)
(* (name, value) pairs by the two framing rules.                           *)
(***************************************************************************)
\* the result of reading a datagram back: ok is FALSE when it follows neither
\* framing rule, pairs are the pairs read
Decoded(ok, pairs) == [ok |-> ok, pairs |-> pairs]

\* the least index from `from` on where s holds one of `bytes`, 0 if none
FirstIndex(s, from, bytes) ==
    IF \E i \in from..Len(s) : s[i] \in bytes
    THEN CHOOSE i \in from..Len(s) :
            /\ s[i] \in bytes
            /\ \A j \in from..(i - 1) : s[j] \notin bytes
    ELSE 0

\* the length read from its 8 little-endian bytes; -1 when it is 2^24 or more
LengthOf(bs) ==
    IF \E i \in 4..8 : bs[i] # 0
    THEN -1
    ELSE bs[1] + 256 * bs[2] + 65536 * bs[3]

RECURSIVE DecodeFrom(_, _)
DecodeFrom(d, acc) ==
    IF d = <<>>
    THEN Decoded(TRUE, acc)
    ELSE LET i == FirstIndex(d, 1, {61, 10})
         IN  IF i = 0
             THEN Decoded(FALSE, acc)
             ELSE IF d[i] = 61
             THEN LET j == FirstIndex(d, i + 1, {10})
                  IN  IF j = 0
                      THEN Decoded(FALSE, acc)
                      ELSE DecodeFrom(SubSeq(d, j + 1, Len(d)),
                               Append(acc, <<SubSeq(d, 1, i - 1), SubSeq(d, i + 1, j - 1)>>))
             ELSE IF Len(d) < i + 8
             THEN Decoded(FALSE, acc)
             ELSE LET n == LengthOf(SubSeq(d, i + 1, i + 8))
                      end == i + 8 + n + 1
                  IN  IF n < 0 \/ Len(d) < end
                      THEN Decoded(FALSE, acc)
                      ELSE IF d[end] # 10
                      THEN Decoded(FALSE, acc)
                      ELSE DecodeFrom(SubSeq(d, end + 1, Len(d)),
                               Append(acc, <<SubSeq(d, 1, i - 1), SubSeq(d, i + 9, end - 1)>>))

Decode(d) == DecodeFrom(d, <<>>)

\* the (sanitized name, value bytes) pairs of an event, in field order
Pairs(rec) ==
    [i \in 1..Len(rec) |->
        <<write_field_name(rec[i].name, <<>>), ValueBytes(rec[i].value)>>]

\* the event a delivered datagram was sent for
RecordOf(i) == consumed[sent[i].rec]

\* the configured maximum encoded size of a record (spec 4.3 step 3); the
\* sink has no such setting
MaxRecordSize == 16

(***************************************************************************)
(* Properties.                                                             *)
(***************************************************************************)

\* C1: a scalar value without '\n' is appended, at every field position, as
\* NAME '=' value '\n'; the event {"Message": "hello", "Count": 3} is
\* delivered as MESSAGE=hello\nCOUNT=3\n.
C1_SingleLineFraming ==
    /\ (/\ lastField.wrote
        /\ ~IsCollection(lastField.value)
        /\ ~Contains(ValueBytes(lastField.value), 10))
        => lastField.after =
               lastField.before \o write_field_name(lastField.name, <<>>) \o <<61>>
                   \o ValueBytes(lastField.value) \o <<10>>
    /\ \A i \in 1..Len(sent) :
        RecordOf(i) = RecMessageCount
            => sent[i].bytes =
                   <<77, 69, 83, 83, 65, 71, 69, 61, 104, 101, 108, 108, 111, 10,
                     67, 79, 85, 78, 84, 61, 51, 10>>

\* C2: a scalar value with a '\n' is appended, at every field position, as
\* NAME '\n' u64le(length) value '\n'; the event {"msg": "line1\nline2"} is
\* delivered as MSG\n u64le(11) line1\nline2 \n.
C2_LengthPrefixedFraming ==
    /\ (/\ lastField.wrote
        /\ ~IsCollection(lastField.value)
        /\ Contains(ValueBytes(lastField.value), 10))
        => lastField.after =
               lastField.before \o write_field_name(lastField.name, <<>>) \o <<10>>
                   \o U64LE(Len(ValueBytes(lastField.value)))
                   \o ValueBytes(lastField.value) \o <<10>>
    /\ \A i \in 1..Len(sent) :
        RecordOf(i) = RecMultiline
            => sent[i].bytes =
                   <<77, 83, 71, 10, 11, 0, 0, 0, 0, 0, 0, 0,
                     108, 105, 110, 101, 49, 10, 108, 105, 110, 101, 50, 10>>

\* C3: no datagram longer than the configured maximum is handed to the socket
\* or delivered, and the sink does not stop over such a record.
C3_OversizeNeverSent ==
    /\ \A i \in 1..Len(inflight) : Len(inflight[i]) <= MaxRecordSize
    /\ \A i \in 1..Len(sent) : Len(sent[i].bytes) <= MaxRecordSize

\* C4: a failed send never stops the sink: only a failure to create the
\* socket keeps it from running.
C4_SendFailureDoesNotStop ==
    error = "SendFailed" => pc # "panicked"

\* C5: an event holding a collection value fails with InvalidInternalValue
\* once the encoder reaches that value, and nothing is sent for it: no
\* datagram is handed to the socket or delivered for that event.
C5_CollectionNeverSent ==
    \A k \in 1..Len(consumed) :
        HasCollection(consumed[k]) =>
            /\ k = Len(consumed)
            /\ inflight = <<>>
            /\ \A i \in 1..Len(sent) : sent[i].rec # k
            /\ \/ pc = "encode" /\ HasCollection(fields)
               \/ pc = "panicked" /\ error = "InvalidInternalValue"

\* C5 witness: the second event holds a collection in its second field; the
\* first field was encoded, the encoder panicked, and only the first event's
\* datagram was delivered.
C5_Witness ==
    /\ pc = "panicked"
    /\ error = "InvalidInternalValue"
    /\ Len(consumed) = 2
    /\ consumed[2] = RecArrayLater
    /\ lastField.pos = 2
    /\ Len(lastField.before) > 0
    /\ Len(sent) = 1

\* C6: the name written is a valid field name: 1 to 64 bytes, each in
\* [A-Z0-9_], the first not a digit; the bytes already in the buffer stay.
C6_ValidFieldName ==
    namePc = "done" =>
        /\ SubSeq(outAfter, 1, Len(outBefore)) = outBefore
        /\ Len(Written) >= 1
        /\ Len(Written) <= 64
        /\ \A i \in 1..Len(Written) :
            \/ Written[i] \in 65..90
            \/ Written[i] \in 48..57
            \/ Written[i] = 95
        /\ Written[1] \notin 48..57

\* C6 witness: a name longer than 64 bytes that starts with a digit was
\* written as 64 bytes.
C6_Witness ==
    /\ namePc = "done"
    /\ Len(nameIn) > 64
    /\ nameIn[1] = 49
    /\ Len(Written) = 64

\* the transformation of C9 of the first n bytes of a name
Transformed(name, n) ==
    [i \in 1..n |->
        IF name[i] \in 97..122 THEN name[i] - 32
        ELSE IF name[i] \in (65..90) \cup (48..57) THEN name[i]
        ELSE 95]

\* the name C9 states
ExpectedName(name) ==
    IF Len(name) = 0
    THEN <<69, 77, 80, 84, 89>>
    ELSE IF name[1] \notin (65..90) \cup (97..122)
    THEN <<69, 83, 67, 95>> \o Transformed(name, IF Len(name) < 60 THEN Len(name) ELSE 60)
    ELSE Transformed(name, IF Len(name) < 64 THEN Len(name) ELSE 64)

\* C9: ESC_ is written exactly for a non-empty name whose first byte is no
\* ASCII letter, followed by the transformation of the first min(len, 60)
\* bytes; a name starting with a letter gives the transformation of its first
\* min(len, 64) bytes; the empty name gives EMPTY; "1bad" gives ESC_1BAD.
C9_EscPrefixRule ==
    namePc = "done" =>
        /\ Written = ExpectedName(nameIn)
        /\ nameIn = <<49, 98, 97, 100>> => Written = <<69, 83, 67, 95, 49, 66, 65, 68>>

\* C9 witness: a name starting with '-' and longer than 60 bytes was written
\* as ESC_ and 60 more bytes.
C9_Witness ==
    /\ namePc = "done"
    /\ nameIn[1] = 45
    /\ Len(nameIn) > 60
    /\ Len(Written) = 64
    /\ SubSeq(Written, 1, 5) = <<69, 83, 67, 95, 95>>

\* C7: one datagram per event, in arrival order: at most one send is pending;
\* the k-th datagram delivered is the one assembled from the k-th event alone;
\* when the sink is back at the stream, as many datagrams were delivered as
\* events were consumed.
C7_OrderedOneDatagramPerRecord ==
    /\ Len(inflight) <= 1
    /\ Len(sent) <= Len(consumed)
    /\ inflight # <<>> => (pc = "await" /\ Len(sent) = Len(consumed) - 1)
    /\ pc \in {"pull", "closed"} => Len(sent) = Len(consumed)
    /\ \A k \in 1..Len(sent) :
        /\ sent[k].rec = k
        /\ sent[k].bytes = EncodeRecord(consumed[k])

\* C7 witness: two different events were consumed and two datagrams delivered.
C7_Witness ==
    /\ pc = "closed"
    /\ Len(consumed) = 2
    /\ Len(sent) = 2
    /\ consumed[1] = RecMessageCount
    /\ consumed[2] = RecDigitName
    /\ sent[1].bytes # sent[2].bytes

\* C8: decoding a delivered datagram by the two framing rules gives back the
\* event's (sanitized name, value bytes) pairs, in field order.
C8_RoundTrip ==
    \A i \in 1..Len(sent) :
        ~HasCollection(RecordOf(i)) =>
            /\ Decode(sent[i].bytes).ok
            /\ Decode(sent[i].bytes).pairs = Pairs(RecordOf(i))

\* the fields of the current event the loop has visited
Visited == SubSeq(consumed[Len(consumed)], 1, Len(consumed[Len(consumed)]) - Len(fields))

\* C10: the buffer is empty when the encoding of an event begins, holds only
\* the encoded fields of the current event while it is encoded, and every
\* datagram delivered is the encoding, from an empty buffer, of its own event.
C10_BufferFreshPerRecord ==
    /\ pc = "pull" => buffer = <<>>
    /\ pc \in {"encode", "send", "await"} => buffer = EncodeFields(Visited, <<>>)
    /\ \A i \in 1..Len(sent) : sent[i].bytes = EncodeRecord(RecordOf(i))

\* C10 witness: after a first datagram was delivered, the second event is
\* half encoded.
C10_Witness ==
    /\ pc = "encode"
    /\ Len(consumed) = 2
    /\ Len(sent) = 1
    /\ sent[1].bytes # <<>>
    /\ Len(fields) = 1
    /\ Len(consumed[2]) = 2
    /\ buffer # <<>>

====
